---- MODULE Spec2Model ----
(***************************************************************************)
(* Model of the two-phase ID3v2 tag parser of parse.go: parseTag reads the *)
(* container header and runs the structural scan (findAllFrames), which    *)
(* builds the index of frame coordinates; parseFramesCoordsWithID and      *)
(* parseAllFramesCoords later decode the indexed frames on demand.         *)
(* The byte source is a sequence of bytes (0..255) and every offset is an  *)
(* absolute offset into it, as in the Go code.                             *)
(***************************************************************************)
EXTENDS Integers, Sequences, FiniteSets, TLC

(* ------------------------------ bounds --------------------------------- *)
MaxFrames == 2      \* frames laid out in the input file
MaxOver == 1        \* bytes by which the last frame may overshoot the tag end
MaxCut == 1         \* bytes missing at the end of the input file
MaxDecReads == 1    \* read requests one decoder run makes

(* ----------------------------- constants ------------------------------- *)
frameHeaderSize == 10
tagHeaderSize == 10

(* ------------------------- identifiers (bytes) ------------------------- *)
TIT2 == <<84, 73, 84, 50>>
APIC == <<65, 80, 73, 67>>
COMM == <<67, 79, 77, 77>>
USLT == <<85, 83, 76, 84>>
PRIV == <<80, 82, 73, 86>>
ZeroID == <<0, 0, 0, 0>>
ID3Magic == <<73, 68, 51>>
NoMagic == <<255, 251, 144>>

FrameIDs == {TIT2, COMM, PRIV}
QueryIDs == FrameIDs \cup {ZeroID}
FrameSizes == {0, 2}
BigSize == 130      \* a size that needs two base-128 digits
Pads == {0, 4, 10}
Versions == {2, 3, 4, 5}

(* The version tables map the frame names to the on-disk identifiers.      *)
V23IDs == [name \in {"Attached picture", "Comments",
                     "Unsynchronised lyrics/text transcription"} |->
             CASE name = "Attached picture" -> APIC
               [] name = "Comments" -> COMM
               [] OTHER -> USLT]
V24IDs == [name \in {"Attached picture", "Comments",
                     "Unsynchronised lyrics/text transcription"} |->
             CASE name = "Attached picture" -> APIC
               [] name = "Comments" -> COMM
               [] OTHER -> USLT]

(* ------------------------------ helpers -------------------------------- *)
Min(a, b) == IF a < b THEN a ELSE b
Max(a, b) == IF a > b THEN a ELSE b

(* util.ParseSize: four synchsafe bytes, most significant first, the low   *)
(* seven bits of each byte being one base-128 digit.                       *)
ParseSize(b) ==
    (b[1] % 128) * 2097152 + (b[2] % 128) * 16384 + (b[3] % 128) * 128 + (b[4] % 128)

(* The on-disk encoding of a size field (the layout the parser consumes).  *)
EncodeSize(n) ==
    <<(n \div 2097152) % 128, (n \div 16384) % 128, (n \div 128) % 128, n % 128>>

(* Payload byte j (1-based) of the k-th frame of the input.                *)
PayloadByte(k, j) == (64 * k + j) % 256

FrameBytes(fr, k) ==
    fr.id \o EncodeSize(fr.size) \o <<0, 0>> \o [j \in 1..fr.size |-> PayloadByte(k, j)]

RECURSIVE FramesBytes(_, _)
FramesBytes(frs, k) ==
    IF k > Len(frs) THEN <<>>
    ELSE FrameBytes(frs[k], k) \o FramesBytes(frs, k + 1)

RECURSIVE SumSizes(_, _)
SumSizes(frs, k) ==
    IF k > Len(frs) THEN 0
    ELSE frameHeaderSize + frs[k].size + SumSizes(frs, k + 1)

Zeros(n) == [j \in 1..n |-> 0]

(* The size the container header declares for the frame region.            *)
DeclaredSize(in) == Max(0, SumSizes(in.frames, 1) + in.pad - in.over)

(* The bytes of the input file: container header, frames, padding, with    *)
(* in.cut bytes missing at the end.                                        *)
FileBytes(in) ==
    LET all == in.magic \o <<in.version, 0, 0>> \o EncodeSize(DeclaredSize(in))
                 \o FramesBytes(in.frames, 1) \o Zeros(in.pad)
    IN  SubSeq(all, 1, Max(0, Len(all) - in.cut))

(* Reading up to n bytes of the source at offset pos (0-based).            *)
ReadAt(f, pos, n) == SubSeq(f, pos + 1, Min(pos + n, Len(f)))

(* A decoder is a sequence of read requests against the reader it is       *)
(* handed: for one byte, or (All) for more than any frame holds.           *)
All == BigSize + 1
WantSet == {1, All}
DecoderRuns == UNION {[1..n -> WantSet] : n \in 0..MaxDecReads}

(* The frame lists of the inputs; only the last frame may be a big one.    *)
FrameSeqs ==
    {frs \in UNION {[1..n -> [id : FrameIDs, size : FrameSizes \cup {BigSize}]] :
                        n \in 0..MaxFrames} :
        \A k \in 1..(Len(frs) - 1) : frs[k].size \in FrameSizes}

(* The inputs: a file (or none), and the decoder the frames are handed to. *)
(* Padding, overshoot and truncation are tried one at a time, on version 3 *)
(* tags; decoders other than the greedy one are tried on the tags whose    *)
(* frames end exactly at the tag end.                                      *)
Inputs ==
    {in \in [nil : BOOLEAN, magic : {ID3Magic, NoMagic}, version : Versions,
             frames : FrameSeqs, pad : Pads, over : 0..MaxOver, cut : 0..MaxCut,
             wants : DecoderRuns] :
        /\ in.nil => (in.frames = <<>> /\ in.magic = ID3Magic /\ in.version = 3)
        /\ (in.nil \/ in.magic = NoMagic \/ in.version # 3)
              => (in.pad = 0 /\ in.over = 0 /\ in.cut = 0 /\ in.wants = <<All>>)
        /\ (in.magic = NoMagic) => in.version = 3
        /\ (in.pad > 0) => (in.over = 0 /\ in.cut = 0 /\ in.wants = <<All>>)
        /\ (in.over > 0) => (in.cut = 0 /\ in.frames # <<>> /\ in.wants = <<All>>)
        /\ (in.cut > 0) => in.wants = <<All>>}

(* --------------------------- pure functions ---------------------------- *)
EmptyMap == [k \in {} |-> <<>>]

MapPut(m, k, v) == [x \in (DOMAIN m) \cup {k} |-> IF x = k THEN v ELSE m[x]]

MapDelete(m, k) == [x \in (DOMAIN m) \ {k} |-> m[x]]

NilTag == [present |-> FALSE]

(* parseHeader: reads the ten leading bytes of the source.  ioerr is the   *)
(* outcome of the underlying read.                                         *)
parseHeader(f, ioerr) ==
    LET b == ReadAt(f, 0, tagHeaderSize)
    IN  IF ioerr THEN [err |-> "io", present |-> FALSE, n |-> 0]
        ELSE IF Len(b) < tagHeaderSize
             THEN [err |-> "short header", present |-> FALSE, n |-> Len(b)]
        ELSE IF SubSeq(b, 1, 3) # ID3Magic
             THEN [err |-> "none", present |-> FALSE, n |-> Len(b)]
        ELSE [err |-> "none", present |-> TRUE, n |-> Len(b),
              Version |-> b[4], FramesSize |-> ParseSize(SubSeq(b, 7, 10))]

newTag(originalSize, version) ==
    [present |-> TRUE,
     framesCoords |-> EmptyMap,
     frames |-> EmptyMap,
     originalSize |-> originalSize,
     version |-> version,
     ids |-> IF version = 3 THEN V23IDs ELSE V24IDs]

(* parseFrameHeader draining a reader that lets two more bytes through.    *)
parseFrameHeader_ReadsOn(f, off, ioerr) ==
    LET b == ReadAt(f, off, frameHeaderSize + 2)
    IN  IF ioerr THEN [err |-> "io", n |-> 0]
        ELSE IF Len(b) < frameHeaderSize
             THEN [err |-> "Size of frame header is less than expected", n |-> Len(b)]
        ELSE [err |-> "none", n |-> Len(b),
              ID |-> SubSeq(b, 1, 4), FrameSize |-> ParseSize(SubSeq(b, 5, 8))]

(* parseFrameHeader: a reader limited to frameHeaderSize bytes is drained  *)
(* into a buffer; b is what the source delivered at its position.          *)
parseFrameHeader(f, off, ioerr) ==
    LET b == ReadAt(f, off, frameHeaderSize)
    IN  IF ioerr THEN [err |-> "io", n |-> 0]
        ELSE IF Len(b) < frameHeaderSize
             THEN [err |-> "Size of frame header is less than expected", n |-> Len(b)]
        ELSE [err |-> "none", n |-> Len(b),
              ID |-> SubSeq(b, 1, 4), FrameSize |-> ParseSize(SubSeq(b, 5, 8))]

(* Tag.ID: the identifier of a frame name in the tag's version table.      *)
TagID(tag, name) == tag.ids[name]

(* findParseFunc without the case of the lyrics frame.                     *)
findParseFunc_NoLyrics(tag, id) ==
    IF id[1] = 84 THEN "parseTextFrame"
    ELSE IF id = TagID(tag, "Attached picture") THEN "parsePictureFrame"
    ELSE IF id = TagID(tag, "Comments") THEN "parseCommentFrame"
    ELSE "nil"

(* findParseFunc falling back to the text decoder.                         *)
findParseFunc_DefaultText(tag, id) ==
    IF id[1] = 84 THEN "parseTextFrame"
    ELSE IF id = TagID(tag, "Attached picture") THEN "parsePictureFrame"
    ELSE IF id = TagID(tag, "Comments") THEN "parseCommentFrame"
    ELSE IF id = TagID(tag, "Unsynchronised lyrics/text transcription")
         THEN "parseUnsynchronisedLyricsFrame"
    ELSE "parseTextFrame"

findParseFunc(tag, id) ==
    IF id[1] = 84 THEN "parseTextFrame"
    ELSE IF id = TagID(tag, "Attached picture") THEN "parsePictureFrame"
    ELSE IF id = TagID(tag, "Comments") THEN "parseCommentFrame"
    ELSE IF id = TagID(tag, "Unsynchronised lyrics/text transcription")
         THEN "parseUnsynchronisedLyricsFrame"
    ELSE "nil"

(* io.LimitedReader over the source: the reads the source serves for the   *)
(* requests wants[k..], the source being at offset off and N bytes left.   *)
RECURSIVE LimitedReads(_, _, _, _, _)
LimitedReads(f, off, N, wants, k) ==
    IF k > Len(wants) \/ N <= 0 THEN <<>>
    ELSE LET ask == Min(wants[k], N)
             got == Len(ReadAt(f, off, ask))
         IN  <<[from |-> off, n |-> got]>> \o
             LimitedReads(f, off + got, N - got, wants, k + 1)

RECURSIVE SumN(_, _)
SumN(rds, k) == IF k > Len(rds) THEN 0 ELSE rds[k].n + SumN(rds, k + 1)

(* readFrame without the seek: the decoder reads on from wherever the      *)
(* source stands.                                                          *)
readFrame_NoSeek(parseFunc, f, off, fc, wants, fail) ==
    LET start == off
        rds == LimitedReads(f, start, fc.Len, wants, 1)
        cnt == SumN(rds, 1)
    IN  [seek |-> off,
         reads |-> rds,
         offset |-> start + cnt,
         err |-> fail,
         fr |-> [kind |-> parseFunc, data |-> ReadAt(f, start, cnt)]]

(* readFrame handing the source itself to the decoder, without the bound.  *)
readFrame_Unlimited(parseFunc, f, off, fc, wants, fail) ==
    LET start == fc.Pos
        rds == LimitedReads(f, start, All, wants, 1)
        cnt == SumN(rds, 1)
    IN  [seek |-> fc.Pos,
         reads |-> rds,
         offset |-> start + cnt,
         err |-> fail,
         fr |-> [kind |-> parseFunc, data |-> ReadAt(f, start, cnt)]]

(* readFrame: seek to fc.Pos, bound the reader by fc.Len, run the decoder. *)
(* off is the position of the source when readFrame is entered.            *)
readFrame(parseFunc, f, off, fc, wants, fail) ==
    LET start == fc.Pos
        rds == LimitedReads(f, start, fc.Len, wants, 1)
        cnt == SumN(rds, 1)
    IN  [seek |-> fc.Pos,
         reads |-> rds,
         offset |-> start + cnt,
         err |-> fail,
         fr |-> [kind |-> parseFunc, data |-> ReadAt(f, start, cnt)]]

(* Tag.AddFrame: the decoded value is appended under its identifier.       *)
AddFrame(tag, id, fr) ==
    [tag EXCEPT !.frames =
        MapPut(tag.frames, id,
               (IF id \in DOMAIN tag.frames THEN tag.frames[id] ELSE <<>>) \o <<fr>>)]


(* ------------------------------- state --------------------------------- *)
VARIABLES
    input,      \* the input the file was built from (never changes)
    file,       \* the bytes of the source
    offset,     \* the read position of the source (shared by all readers)
    pc,         \* where the caller is
    t,          \* the Tag built by parseTag, NilTag when there is none
    header,     \* parseTag: what parseHeader returned
    ret,        \* what parseTag returned: tag non-nil, err, wrapped cause
    pos,        \* findAllFrames: the cursor
    cur,        \* parseFramesCoordsWithID: id, parseFunc, coordinates left
    seeks,      \* seeks performed on the source
    reads,      \* reads served by the source
    scan,       \* history of the scan: iterations entered, header reads
    dec,        \* history: the readFrame runs of each identifier, in order
    resolved,   \* history: the identifiers a resolve was executed for
    again,      \* history: the latest resolve was for an identifier resolved before
    ranged      \* parseAllFramesCoords: the identifiers the range loop has visited

vars == <<input, file, offset, pc, t, header, ret, pos, cur, seeks, reads,
          scan, dec, resolved, again, ranged>>

NoHeader == [err |-> "pending", present |-> FALSE, n |-> 0]

(* The readFrame runs made for an identifier.                              *)
RunsOf(id) == IF id \in DOMAIN dec THEN dec[id] ELSE <<>>

NoCur == [id |-> <<>>, parseFunc |-> "nil", todo |-> <<>>, back |-> "ready"]

Init ==
    /\ input \in Inputs
    /\ file = FileBytes(input)
    /\ offset = 0
    /\ pc = "start"
    /\ t = NilTag
    /\ header = NoHeader
    /\ ret = [tag |-> FALSE, err |-> "pending", cause |-> "none"]
    /\ pos = 0
    /\ cur = NoCur
    /\ seeks = 0
    /\ reads = 0
    /\ scan = [entered |-> FALSE, iters |-> 0, hdrReads |-> <<>>]
    /\ dec = EmptyMap
    /\ resolved = {}
    /\ again = FALSE
    /\ ranged = {}

(* ------------------------------ parseTag ------------------------------- *)
(* parseTag treating a source without header as a header failure.         *)
parseTagOutcome_AbsentIsError(nil, hdr) ==
    IF nil THEN "nil file"
    ELSE IF hdr.err # "none" \/ ~hdr.present THEN "header error"
    ELSE IF hdr.Version < 3 THEN "unsupported version"
    ELSE "scan"

(* parseTag without the version check.                                     *)
parseTagOutcome_NoVersionCheck(nil, hdr) ==
    IF nil THEN "nil file"
    ELSE IF hdr.err # "none" THEN "header error"
    ELSE IF ~hdr.present THEN "empty tag"
    ELSE "scan"

(* parseTag ignoring the error of parseHeader.                             *)
parseTagOutcome_IgnoreHeaderErr(nil, hdr) ==
    IF nil THEN "nil file"
    ELSE IF ~hdr.present THEN "empty tag"
    ELSE IF hdr.Version < 3 THEN "unsupported version"
    ELSE "scan"

(* The checks of parseTag in their order (lines 24-41): what parseTag does *)
(* with a file (nil or not) and the header parseHeader returned for it.    *)
parseTagOutcome(nil, hdr) ==
    IF nil THEN "nil file"
    ELSE IF hdr.err # "none" THEN "header error"
    ELSE IF ~hdr.present THEN "empty tag"
    ELSE IF hdr.Version < 3 THEN "unsupported version"
    ELSE "scan"

(* parseTag up to the call of findAllFrames (lines 23-41).                 *)
ParseTag ==
    /\ pc = "start"
    /\ UNCHANGED <<input, file, cur, seeks, scan, dec, resolved, again, ranged>>
    /\ \E ioerr \in BOOLEAN :
         LET hdr == IF input.nil THEN NoHeader ELSE parseHeader(file, ioerr)
             out == parseTagOutcome(input.nil, hdr)
         IN  /\ header' = hdr
             /\ reads' = IF input.nil THEN reads ELSE reads + 1
             /\ offset' = offset + hdr.n
             /\ CASE out = "nil file" ->
                       /\ ret' = [tag |-> FALSE, err |-> "Invalid file: file is nil",
                                  cause |-> "none"]
                       /\ pc' = "returned"
                       /\ UNCHANGED <<t, pos>>
                  [] out = "header error" ->
                       /\ ret' = [tag |-> FALSE, err |-> "Trying to parse tag header",
                                  cause |-> hdr.err]
                       /\ pc' = "returned"
                       /\ UNCHANGED <<t, pos>>
                  [] out = "empty tag" ->
                       /\ t' = newTag(0, 4)
                       /\ ret' = [tag |-> TRUE, err |-> "none", cause |-> "none"]
                       /\ pc' = "ready"
                       /\ UNCHANGED pos
                  [] out = "unsupported version" ->
                       /\ ret' = [tag |-> FALSE, err |-> "Unsupported version of ID3 tag",
                                  cause |-> "none"]
                       /\ pc' = "returned"
                       /\ UNCHANGED <<t, pos>>
                  [] OTHER ->
                       /\ t' = newTag(tagHeaderSize + hdr.FramesSize, hdr.Version)
                       /\ pos' = tagHeaderSize
                       /\ pc' = "scan"
                       /\ UNCHANGED ret

(* ---------------------------- findAllFrames ---------------------------- *)
(* recordFrame with the coordinates taken before the cursor moves past the *)
(* frame header.                                                           *)
recordFrame_PosAtHeader(tag, p, fh) ==
    LET fc == [Len |-> fh.FrameSize, Pos |-> p]
        fcs == IF fh.ID \in DOMAIN tag.framesCoords
               THEN tag.framesCoords[fh.ID] ELSE <<>>
    IN  [t |-> [tag EXCEPT !.framesCoords = MapPut(tag.framesCoords, fh.ID,
                                                   Append(fcs, fc))],
         pos |-> p + frameHeaderSize + fh.FrameSize]

(* recordFrame moving the cursor by the payload only, not by the header.   *)
recordFrame_HeaderNotSkipped(tag, p, fh) ==
    LET p1 == p + frameHeaderSize
        fc == [Len |-> fh.FrameSize, Pos |-> p1]
        fcs == IF fh.ID \in DOMAIN tag.framesCoords
               THEN tag.framesCoords[fh.ID] ELSE <<>>
    IN  [t |-> [tag EXCEPT !.framesCoords = MapPut(tag.framesCoords, fh.ID,
                                                   Append(fcs, fc))],
         pos |-> p + fh.FrameSize]

(* recordFrame keeping only the latest coordinates of an identifier.       *)
recordFrame_Overwrite(tag, p, fh) ==
    LET p1 == p + frameHeaderSize
        fc == [Len |-> fh.FrameSize, Pos |-> p1]
    IN  [t |-> [tag EXCEPT !.framesCoords = MapPut(tag.framesCoords, fh.ID, <<fc>>)],
         pos |-> p1 + fh.FrameSize]

(* recordFrame decoding the frame during the scan.                         *)
recordFrame_Eager(tag, p, fh) ==
    LET p1 == p + frameHeaderSize
        fc == [Len |-> fh.FrameSize, Pos |-> p1]
        fcs == IF fh.ID \in DOMAIN tag.framesCoords
               THEN tag.framesCoords[fh.ID] ELSE <<>>
        tg == [tag EXCEPT !.framesCoords = MapPut(tag.framesCoords, fh.ID,
                                                  Append(fcs, fc))]
    IN  [t |-> AddFrame(tg, fh.ID, [kind |-> "parseTextFrame", data |-> <<>>]),
         pos |-> p1 + fh.FrameSize]

(* The cursor moves past the frame header only, not past the payload.     *)
recordFrame_PayloadNotSkipped(tag, p, fh) ==
    LET p1 == p + frameHeaderSize
        fc == [Len |-> fh.FrameSize, Pos |-> p1]
        fcs == IF fh.ID \in DOMAIN tag.framesCoords
               THEN tag.framesCoords[fh.ID] ELSE <<>>
    IN  [t |-> [tag EXCEPT !.framesCoords = MapPut(tag.framesCoords, fh.ID,
                                                   Append(fcs, fc))],
         pos |-> p1]

(* Lines 81-91: the coordinates of the frame whose header was read at p    *)
(* are appended under its identifier and the cursor moves past the frame.  *)
recordFrame(tag, p, fh) ==
    LET p1 == p + frameHeaderSize
        fc == [Len |-> fh.FrameSize, Pos |-> p1]
        fcs == IF fh.ID \in DOMAIN tag.framesCoords
               THEN tag.framesCoords[fh.ID] ELSE <<>>
    IN  [t |-> [tag EXCEPT !.framesCoords = MapPut(tag.framesCoords, fh.ID,
                                                   Append(fcs, fc))],
         pos |-> p1 + fh.FrameSize]

(* The loop condition of findAllFrames (line 72).                          *)
scanContinues(p, tagSize) == p < tagSize

(* One iteration of the loop of findAllFrames; an error ends parseTag,     *)
(* which returns the tag together with the error (line 44).                *)
FindAllFramesStep ==
    /\ pc = "scan"
    /\ scanContinues(pos, t.originalSize)
    /\ UNCHANGED <<input, file, header, cur, dec, resolved, again, ranged>>
    /\ \E ioerr \in {"none", "seek", "read"} :
         IF ioerr = "seek"
         THEN /\ ret' = [tag |-> TRUE, err |-> "io", cause |-> "none"]
              /\ pc' = "returned"
              /\ scan' = [scan EXCEPT !.entered = TRUE, !.iters = @ + 1]
              /\ UNCHANGED <<offset, t, pos, seeks, reads>>
         ELSE LET fh == parseFrameHeader(file, pos, ioerr = "read") IN
              /\ seeks' = seeks + 1
              /\ reads' = reads + 1
              /\ offset' = pos + fh.n
              /\ scan' = [scan EXCEPT !.entered = TRUE, !.iters = @ + 1,
                                      !.hdrReads = Append(@, [from |-> pos, n |-> fh.n])]
              /\ IF fh.err # "none"
                 THEN /\ ret' = [tag |-> TRUE, err |-> fh.err, cause |-> "none"]
                      /\ pc' = "returned"
                      /\ UNCHANGED <<t, pos>>
                 ELSE LET r == recordFrame(t, pos, fh) IN
                      /\ t' = r.t
                      /\ pos' = r.pos
                      /\ UNCHANGED <<ret, pc>>

(* The loop ends: findAllFrames returns nil and parseTag returns the tag.  *)
FindAllFramesReturn ==
    /\ pc = "scan"
    /\ ~scanContinues(pos, t.originalSize)
    /\ ret' = [tag |-> TRUE, err |-> "none", cause |-> "none"]
    /\ pc' = "ready"
    /\ scan' = [scan EXCEPT !.entered = TRUE]
    /\ UNCHANGED <<input, file, offset, t, header, pos, cur, seeks, reads, dec, resolved,
                   again, ranged>>

(* ----------------------- parseFramesCoordsWithID ----------------------- *)
(* The whole index is cleared.                                             *)
deleteCoords_All(tag, id) == [tag EXCEPT !.framesCoords = EmptyMap]

(* The identifier is left in the index.                                    *)
deleteCoords_Keep(tag, id) == tag

(* Line 143: delete(t.framesCoords, id).                                   *)
deleteCoords(tag, id) == [tag EXCEPT !.framesCoords = MapDelete(tag.framesCoords, id)]

(* Lines 129-135: the lookup and the choice of the decoder.  A missing     *)
(* identifier returns at once; an identifier without decoder is deleted.   *)
ResolveBegin(id, back) ==
    /\ resolved' = resolved \cup {id}
    /\ again' = (id \in resolved)
    /\ IF id \notin DOMAIN t.framesCoords
       THEN /\ pc' = back
            /\ UNCHANGED <<t, cur>>
       ELSE LET parseFunc == findParseFunc(t, id) IN
            IF parseFunc = "nil"
            THEN /\ t' = deleteCoords(t, id)
                 /\ pc' = back
                 /\ UNCHANGED cur
            ELSE /\ cur' = [id |-> id, parseFunc |-> parseFunc,
                            todo |-> t.framesCoords[id], back |-> back]
                 /\ pc' = "resolve"
                 /\ UNCHANGED t

ParseFramesCoordsWithID ==
    /\ pc = "ready"
    /\ \E id \in QueryIDs : ResolveBegin(id, "ready")
    /\ UNCHANGED <<input, file, offset, header, ret, pos, seeks, reads, scan, dec, ranged>>

(* Lines 136-139: one occurrence is read, decoded and added to the store;  *)
(* a decoder error panics.                                                 *)
ReadFrameStep ==
    /\ pc = "resolve"
    /\ cur.todo # <<>>
    /\ \E fail \in BOOLEAN :
         LET fc == Head(cur.todo)
             r == readFrame(cur.parseFunc, file, offset, fc, input.wants, fail)
         IN  /\ seeks' = seeks + 1
             /\ reads' = reads + Len(r.reads)
             /\ offset' = r.offset
             /\ dec' = MapPut(dec, cur.id,
                              Append(RunsOf(cur.id),
                                     [fc |-> fc, reads |-> r.reads, err |-> r.err,
                                      fr |-> r.fr]))
             /\ IF r.err
                THEN /\ pc' = "panic"
                     /\ UNCHANGED <<t, cur>>
                ELSE /\ t' = AddFrame(t, cur.id, r.fr)
                     /\ cur' = [cur EXCEPT !.todo = Tail(@)]
                     /\ UNCHANGED pc
    /\ UNCHANGED <<input, file, header, ret, pos, scan, resolved, again, ranged>>

(* Line 143: the identifier leaves the index.                              *)
ResolveReturn ==
    /\ pc = "resolve"
    /\ cur.todo = <<>>
    /\ t' = deleteCoords(t, cur.id)
    /\ pc' = cur.back
    /\ cur' = NoCur
    /\ UNCHANGED <<input, file, offset, header, ret, pos, seeks, reads, scan, dec, resolved,
                   again, ranged>>

(* ------------------------- parseAllFramesCoords ------------------------ *)
ParseAllFramesCoords ==
    /\ pc = "ready"
    /\ pc' = "all"
    /\ ranged' = {}
    /\ UNCHANGED <<input, file, offset, t, header, ret, pos, cur, seeks, reads, scan, dec,
                   resolved, again>>

(* The range loop visits an identifier that is still in the map and that   *)
(* it has not visited, in any order.                                       *)
ParseAllNext ==
    /\ pc = "all"
    /\ DOMAIN t.framesCoords \ ranged # {}
    /\ \E id \in DOMAIN t.framesCoords \ ranged :
          /\ ResolveBegin(id, "all")
          /\ ranged' = ranged \cup {id}
    /\ UNCHANGED <<input, file, offset, header, ret, pos, seeks, reads, scan, dec>>

(* The range loop ends when no unvisited identifier is left in the map.    *)
ParseAllReturn ==
    /\ pc = "all"
    /\ DOMAIN t.framesCoords \ ranged = {}
    /\ pc' = "ready"
    /\ ranged' = {}
    /\ UNCHANGED <<input, file, offset, t, header, ret, pos, cur, seeks, reads, scan, dec,
                   resolved, again>>

Next ==
    \/ ParseTag
    \/ FindAllFramesStep
    \/ FindAllFramesReturn
    \/ ParseFramesCoordsWithID
    \/ ReadFrameStep
    \/ ResolveReturn
    \/ ParseAllFramesCoords
    \/ ParseAllNext
    \/ ParseAllReturn

Spec == Init /\ [][Next]_vars

(* ------------------------ findParseFunc on its own --------------------- *)
(* The decoder dispatch applied to arbitrary identifiers: the tag is an    *)
(* empty version 3 or 4 tag as parseTag returns it, and the identifiers    *)
(* are all four-letter words over the letters of TIT2, APIC, COMM, USLT.   *)
ProbeBytes == {84, 65, 80, 73, 67, 79, 77, 85, 83, 76}
ProbeIDs == [1..4 -> ProbeBytes]

InitDispatch ==
    /\ input \in {in \in Inputs : /\ ~in.nil /\ in.magic = ID3Magic
                                  /\ in.version \in {3, 4} /\ in.frames = <<>>
                                  /\ in.pad = 0 /\ in.over = 0 /\ in.cut = 0}
    /\ file = FileBytes(input)
    /\ offset = tagHeaderSize
    /\ pc = "ready"
    /\ header = parseHeader(file, FALSE)
    /\ t = newTag(tagHeaderSize + header.FramesSize, header.Version)
    /\ ret = [tag |-> TRUE, err |-> "none", cause |-> "none"]
    /\ pos = tagHeaderSize
    /\ cur = NoCur
    /\ seeks = 0
    /\ reads = 1
    /\ scan = [entered |-> TRUE, iters |-> 0, hdrReads |-> <<>>]
    /\ dec = EmptyMap
    /\ resolved = {}
    /\ again = FALSE
    /\ ranged = {}

(* Line 134: parseFunc := t.findParseFunc(id), called once per behaviour.  *)
Dispatch ==
    /\ pc = "ready"
    /\ cur = NoCur
    /\ \E id \in ProbeIDs :
          cur' = [id |-> id, parseFunc |-> findParseFunc(t, id), todo |-> <<>>,
                  back |-> "ready"]
    /\ UNCHANGED <<input, file, offset, pc, t, header, ret, pos, seeks, reads, scan, dec,
                   resolved, again, ranged>>

NextDispatch == Dispatch

SpecDispatch == InitDispatch /\ [][NextDispatch]_vars

(* ============================== properties ============================= *)
HeaderPresent == header.err = "none" /\ header.present

(* The input's frame region is its frames back to back, ending at the tag  *)
(* end.                                                                    *)
ExactInput == input.pad = 0 /\ input.over = 0

(* The scan has returned and the caller has not resolved anything yet.     *)
JustScanned == pc = "ready" /\ resolved = {} /\ HeaderPresent

(* Offset of the payload of the k-th frame of frs.                         *)
PayloadPos(frs, k) ==
    tagHeaderSize + SumSizes(SubSeq(frs, 1, k - 1), 1) + frameHeaderSize

RECURSIVE ExpectedCoords(_, _, _)
ExpectedCoords(frs, id, k) ==
    IF k > Len(frs) THEN <<>>
    ELSE (IF frs[k].id = id
          THEN <<[Len |-> frs[k].size, Pos |-> PayloadPos(frs, k)]>>
          ELSE <<>>) \o ExpectedCoords(frs, id, k + 1)

RECURSIVE CountCoords(_, _)
CountCoords(m, ids) ==
    IF ids = {} THEN 0
    ELSE LET id == CHOOSE x \in ids : TRUE
         IN  Len(m[id]) + CountCoords(m, ids \ {id})

(* C1: after a successful scan of a tag whose frame region is frames       *)
(* f1..fn back to back ending at the tag end, the index holds exactly n    *)
(* coordinates; the k-th frame's is filed under its identifier, with Len   *)
(* the declared size and Pos the offset just after its 10-byte header.     *)
C1_ScanRecordsEveryFrame ==
    (JustScanned /\ ExactInput) =>
        /\ DOMAIN t.framesCoords = {input.frames[k].id : k \in DOMAIN input.frames}
        /\ \A id \in DOMAIN t.framesCoords :
              t.framesCoords[id] = ExpectedCoords(input.frames, id, 1)
        /\ CountCoords(t.framesCoords, DOMAIN t.framesCoords) = Len(input.frames)

C1_Witness ==
    /\ JustScanned /\ ExactInput
    /\ Len(input.frames) >= 2
    /\ input.frames[1].id = input.frames[2].id
    /\ input.frames[1].size > 0
    /\ input.frames[Len(input.frames)].size = BigSize

(* C2: every byte the decoder obtains in a readFrame run lies in           *)
(* [Pos, Pos+Len) of the occurrence: the first read starts at Pos, the     *)
(* reads are contiguous and deliver at most Len bytes in total.            *)
C2_DecoderReadsInsideFrame ==
    \A id \in DOMAIN dec : \A i \in DOMAIN dec[id] :
        LET d == dec[id][i] IN
        /\ SumN(d.reads, 1) <= d.fc.Len
        /\ Len(d.fr.data) = SumN(d.reads, 1)
        /\ \A j \in DOMAIN d.reads :
              /\ d.reads[j].from = d.fc.Pos + SumN(SubSeq(d.reads, 1, j - 1), 1)
              /\ d.reads[j].from >= d.fc.Pos
              /\ d.reads[j].from + d.reads[j].n <= d.fc.Pos + d.fc.Len

(* A decoder asked for more than the frame holds, bytes followed the frame *)
(* in the source, and it was given the frame's bytes only.                 *)
C2_Witness ==
    \E id \in DOMAIN dec : \E i \in DOMAIN dec[id] :
        /\ dec[id][i].fc.Len > 0
        /\ dec[id][i].fc.Pos + dec[id][i].fc.Len < Len(file)
        /\ SumN(dec[id][i].reads, 1) = dec[id][i].fc.Len
        /\ ~dec[id][i].err
        /\ All \in {input.wants[k] : k \in DOMAIN input.wants}

(* The decoded values stored under an identifier.                          *)
StoreOf(id) == IF t.present /\ id \in DOMAIN t.frames THEN t.frames[id] ELSE <<>>

(* A resolve of id was executed and has returned.                          *)
Returned(id) ==
    /\ id \in resolved
    /\ pc # "panic"
    /\ ~(pc = "resolve" /\ cur.id = id)

(* C3: once a resolve of an identifier has returned the identifier is not  *)
(* in the index, and a further parseFramesCoordsWithID for it returns at   *)
(* once: no seek, no read, index and store unchanged.                      *)
C3_ResolveIdempotent ==
    /\ [](t.present => \A id \in resolved :
                          Returned(id) => id \notin DOMAIN t.framesCoords)
    /\ [][\A id \in QueryIDs :
            (Returned(id) /\ pc = "ready" /\ ResolveBegin(id, "ready"))
               => /\ pc' = "ready"
                  /\ t' = t
                  /\ seeks' = seeks /\ reads' = reads /\ offset' = offset
                  /\ dec' = dec]_vars

(* A second resolve of an identifier that had decoded values has returned. *)
C3_Witness ==
    /\ again /\ pc = "ready"
    /\ \E id \in resolved : Len(StoreOf(id)) >= 2

(* C4: the store holds values only for identifiers a resolve was executed  *)
(* for (so it is empty when parseTag returns), and a step decodes or       *)
(* stores an occurrence only of the identifier being resolved, taken from  *)
(* that identifier's index entry.                                          *)
C4_Lazy ==
    /\ []((t.present => DOMAIN t.frames \subseteq resolved)
          /\ DOMAIN dec \subseteq resolved)
    /\ [][\A id \in QueryIDs :
            (RunsOf(id)' # RunsOf(id) \/ StoreOf(id)' # StoreOf(id))
               => /\ pc = "resolve" /\ cur.id = id
                  /\ Len(RunsOf(id)') = Len(RunsOf(id)) + 1
                  /\ \E k \in DOMAIN t.framesCoords[id] :
                        RunsOf(id)'[Len(RunsOf(id)')].fc = t.framesCoords[id][k]]_vars

(* One identifier has been decoded while another decodable one is still    *)
(* pending in the index.                                                   *)
C4_Witness ==
    /\ pc = "ready" /\ t.present
    /\ \E a \in DOMAIN t.frames, b \in DOMAIN t.framesCoords :
          a # b /\ findParseFunc(t, b) # "nil" /\ StoreOf(b) = <<>>

(* C5: when parseHeader reports no header and no error, parseTag returns a *)
(* tag and no error; the tag's index and store are empty and stay so, and  *)
(* the scan never runs (no seek, no frame header read).                    *)
C5_NoHeaderEmptyTag ==
    (pc # "start" /\ header.err = "none" /\ ~header.present) =>
        /\ ret = [tag |-> TRUE, err |-> "none", cause |-> "none"]
        /\ pc \in {"ready", "all"}
        /\ t.present /\ t.originalSize = 0
        /\ t.framesCoords = EmptyMap /\ t.frames = EmptyMap
        /\ ~scan.entered /\ scan.iters = 0 /\ scan.hdrReads = <<>>
        /\ seeks = 0 /\ reads = 1

C5_Witness ==
    /\ header.err = "none" /\ ~header.present
    /\ pc = "ready" /\ input.frames # <<>> /\ resolved # {}

(* C6: a header with a major version below 3 makes parseTag fail with the  *)
(* unsupported-version error and no tag; findAllFrames is never entered    *)
(* and no frame header is read.                                            *)
C6_OldVersionRejected ==
    (pc # "start" /\ HeaderPresent /\ header.Version < 3) =>
        /\ ret = [tag |-> FALSE, err |-> "Unsupported version of ID3 tag", cause |-> "none"]
        /\ pc = "returned"
        /\ ~t.present
        /\ ~scan.entered /\ scan.iters = 0 /\ scan.hdrReads = <<>>
        /\ seeks = 0 /\ reads = 1

C6_Witness ==
    /\ pc = "returned" /\ HeaderPresent /\ header.Version = 2
    /\ Len(input.frames) >= 2

(* The scan found fewer than 10 bytes where it expected a frame header.    *)
TruncatedHeaderSeen ==
    /\ scan.hdrReads # <<>>
    /\ scan.hdrReads[Len(scan.hdrReads)].n < frameHeaderSize
    /\ ret.err # "io"

(* C7: when the scan finds a truncated frame header, parseTag fails with   *)
(* the truncation error and the caller gets no tag in which coordinates    *)
(* collected before the truncation are still recorded.                     *)
C7_TruncationDiscardsCoords ==
    TruncatedHeaderSeen =>
        /\ pc = "returned"
        /\ ret.err = "Size of frame header is less than expected"
        /\ (~ret.tag \/ t.framesCoords = EmptyMap)

(* C8: frames sharing an identifier are neither collapsed nor reordered.   *)
(* The index lists every occurrence once, in increasing Pos, under the     *)
(* identifier read from its header; a resolve decodes the occurrences in   *)
(* index order, one AddFrame per occurrence, and the store keeps them all. *)
GoodHdrReads == SelectSeq(scan.hdrReads, LAMBDA r : r.n = frameHeaderSize)

C8_OccurrencesKept ==
    /\ t.present =>
          \A id \in DOMAIN t.framesCoords :
             LET fcs == t.framesCoords[id] IN
             /\ fcs # <<>>
             /\ \A i \in DOMAIN fcs :
                   /\ ReadAt(file, fcs[i].Pos - frameHeaderSize, 4) = id
                   /\ \A j \in DOMAIN fcs : i < j => fcs[i].Pos < fcs[j].Pos
    /\ (t.present /\ HeaderPresent /\ resolved = {}) =>
          CountCoords(t.framesCoords, DOMAIN t.framesCoords) = Len(GoodHdrReads)
    /\ pc = "resolve" =>
          [i \in DOMAIN RunsOf(cur.id) |-> RunsOf(cur.id)[i].fc] \o cur.todo
             = t.framesCoords[cur.id]
    /\ \A id \in DOMAIN dec :
          LET ok == SelectSeq(dec[id], LAMBDA d : ~d.err) IN
          /\ StoreOf(id) = [i \in DOMAIN ok |-> ok[i].fr]
          /\ \A i \in DOMAIN ok :
                ok[i].fr.data = ReadAt(file, ok[i].fc.Pos, Len(ok[i].fr.data))
          /\ (Returned(id) /\ ExactInput) =>
                /\ [i \in DOMAIN dec[id] |-> dec[id][i].fc]
                      = ExpectedCoords(input.frames, id, 1)
                /\ Len(StoreOf(id)) = Len(ExpectedCoords(input.frames, id, 1))

(* Two frames with one identifier were resolved and both values are in the *)
(* store, the earlier frame's first.                                       *)
C8_Witness ==
    /\ pc = "ready"
    /\ \E id \in resolved :
          /\ Len(StoreOf(id)) = 2
          /\ Len(StoreOf(id)[1].data) > 0
          /\ StoreOf(id)[1].data # StoreOf(id)[2].data
          /\ dec[id][1].fc.Pos < dec[id][2].fc.Pos

(* The identifier is not text-prefixed and is none of the version-resolved *)
(* picture, comment and lyrics identifiers.                                *)
UnknownID(id) ==
    /\ id[1] # 84
    /\ id \notin {TagID(t, "Attached picture"), TagID(t, "Comments"),
                  TagID(t, "Unsynchronised lyrics/text transcription")}

(* C9: for an identifier without decoder no decoder runs and the source is *)
(* not read; it never enters the store, and once a resolve was attempted   *)
(* it is gone from the index.                                              *)
C9_UnknownNeverDecoded ==
    t.present =>
        \A id \in QueryIDs \cup DOMAIN t.framesCoords :
            UnknownID(id) =>
                /\ id \notin DOMAIN dec
                /\ id \notin DOMAIN t.frames
                /\ ~(pc = "resolve" /\ cur.id = id)
                /\ id \in resolved => id \notin DOMAIN t.framesCoords

(* An indexed frame without decoder was resolved, after a decodable one.   *)
C9_Witness ==
    /\ pc = "ready" /\ HeaderPresent /\ ret.err = "none"
    /\ PRIV \in resolved
    /\ \E k \in DOMAIN input.frames : input.frames[k].id = PRIV
    /\ DOMAIN t.frames # {}

(* C10: a nil file and a failure of parseHeader each end parseTag with an  *)
(* error and a nil tag; for a nil file the source is not touched, for a    *)
(* header failure the scan is not started.                                 *)
C10_NilAndHeaderErrors ==
    /\ (pc # "start" /\ input.nil) =>
          /\ ret = [tag |-> FALSE, err |-> "Invalid file: file is nil", cause |-> "none"]
          /\ pc = "returned" /\ ~t.present
          /\ reads = 0 /\ seeks = 0 /\ offset = 0
          /\ ~scan.entered
    /\ (pc # "start" /\ ~input.nil /\ header.err # "none") =>
          /\ ret = [tag |-> FALSE, err |-> "Trying to parse tag header",
                    cause |-> header.err]
          /\ pc = "returned" /\ ~t.present
          /\ ~scan.entered /\ scan.iters = 0 /\ scan.hdrReads = <<>> /\ seeks = 0

C10_Witness ==
    /\ pc = "returned" /\ ~input.nil
    /\ header.err = "short header"

(* C11: a tag is built and scanned only for the major versions 3 and 4; a  *)
(* header carrying any other major version yields no tag.                  *)
C11_OnlySupportedVersions ==
    (pc # "start" /\ HeaderPresent) =>
        /\ (t.present \/ ret.tag \/ scan.entered) => header.Version \in {3, 4}
        /\ header.Version \notin {3, 4} => (pc = "returned" /\ ret.err # "none")

(* The coordinates in the index, of all identifiers.                       *)
AllCoords ==
    UNION {{t.framesCoords[id][i] : i \in DOMAIN t.framesCoords[id]} :
             id \in DOMAIN t.framesCoords}

(* A tag is being or has been scanned and nothing was resolved yet.        *)
IndexIntact == t.present /\ HeaderPresent /\ resolved = {}

ScanFailed == pc = "returned" /\ ret.tag /\ ret.err # "none"

(* The scan failed in parseFrameHeader (not in the seek before it).        *)
ScanFailedAtRead == ScanFailed /\ scan.iters = Len(scan.hdrReads)

(* Every read of the scan starts at the cursor (the tag header's end or    *)
(* the end of a recorded payload), delivers at most 10 bytes and none of   *)
(* a recorded payload.                                                     *)
HeaderBytesOnly ==
    \A k \in DOMAIN scan.hdrReads :
        LET r == scan.hdrReads[k] IN
        /\ r.n <= frameHeaderSize
        /\ \/ r.from = tagHeaderSize
           \/ \E fc \in AllCoords : r.from = fc.Pos + fc.Len
        /\ r.n = frameHeaderSize => \E fc \in AllCoords : fc.Pos = r.from + frameHeaderSize
        /\ \A fc \in AllCoords : r.from + r.n <= fc.Pos \/ r.from >= fc.Pos + fc.Len

(* C12 as stated: header bytes only, at most one header read per           *)
(* iteration, and as many header reads as coordinates, plus one when the   *)
(* scan fails.                                                             *)
C12_HeaderReadsOnly_AsStated ==
    IndexIntact =>
        /\ HeaderBytesOnly
        /\ Len(scan.hdrReads) <= scan.iters
        /\ Len(scan.hdrReads) = Cardinality(AllCoords) + (IF ScanFailed THEN 1 ELSE 0)

(* C12 (amended): header bytes only, at most one header read per           *)
(* iteration, and as many header reads as coordinates, plus one when the   *)
(* scan fails in reading a frame header; a scan that fails in the seek     *)
(* makes no further read.  The payload lengths do not enter the count.     *)
C12_HeaderReadsOnly ==
    IndexIntact =>
        /\ HeaderBytesOnly
        /\ Len(scan.hdrReads) <= scan.iters
        /\ Cardinality(AllCoords) = CountCoords(t.framesCoords, DOMAIN t.framesCoords)
        /\ Len(scan.hdrReads) = Cardinality(AllCoords) + (IF ScanFailedAtRead THEN 1 ELSE 0)
        /\ reads = 1 + Len(scan.hdrReads)

(* A scan recorded a frame with payload and failed at a later header read. *)
C12_Witness ==
    /\ IndexIntact /\ ScanFailedAtRead
    /\ Len(scan.hdrReads) >= 2
    /\ \E fc \in AllCoords : fc.Len > 0

(* C13: after a successful scan every coordinate lies inside the tag:      *)
(* Pos + Len <= t.originalSize, also for a last frame that declares more   *)
(* than the tag has left.                                                  *)
C13_CoordsInsideTag ==
    (IndexIntact /\ pc = "ready") =>
        \A fc \in AllCoords : fc.Pos + fc.Len <= t.originalSize

(* The occurrence with coordinates fc of id has a decoded value in the     *)
(* store.                                                                  *)
InStore(id, fc) ==
    \E k \in DOMAIN RunsOf(id) : ~RunsOf(id)[k].err /\ RunsOf(id)[k].fc = fc

(* C14: in every state after the scan, the states between the steps of a   *)
(* resolve included, no occurrence is both in the index and decoded in the *)
(* store.                                                                  *)
C14_PendingOrResolved ==
    t.present =>
        \A id \in DOMAIN t.framesCoords : \A i \in DOMAIN t.framesCoords[id] :
            ~InStore(id, t.framesCoords[id][i])

(* C15: when the decoder fails on an occurrence of an identifier the       *)
(* resolve aborts with index and store as they were before the call: the   *)
(* identifier is pending in the index and has no value in the store.       *)
C15_FailedResolveLeavesNoTrace ==
    pc = "panic" =>
        /\ cur.id \in DOMAIN t.framesCoords
        /\ StoreOf(cur.id) = <<>>

(* The frames a scan of the bytes f finds from offset p up to tagSize.     *)
RECURSIVE ScanFile(_, _, _)
ScanFile(f, p, tagSize) ==
    IF p >= tagSize THEN <<>>
    ELSE LET b == ReadAt(f, p, frameHeaderSize) IN
         IF Len(b) < frameHeaderSize THEN <<>>
         ELSE LET len == ParseSize(SubSeq(b, 5, 8)) IN
              <<[id |-> SubSeq(b, 1, 4),
                 fc |-> [Len |-> len, Pos |-> p + frameHeaderSize]]>>
                 \o ScanFile(f, p + frameHeaderSize + len, tagSize)

RECURSIVE SumWants(_, _)
SumWants(wants, k) == IF k > Len(wants) THEN 0 ELSE wants[k] + SumWants(wants, k + 1)

(* The values the input's decoder yields for the frames of id, in on-disk  *)
(* order: a function of the file and the decoder alone.                    *)
ExpectedStore(id) ==
    LET all == ScanFile(file, tagHeaderSize, t.originalSize)
        mine == SelectSeq(all, LAMBDA e : e.id = id)
    IN  IF findParseFunc(t, id) = "nil" THEN <<>>
        ELSE [k \in DOMAIN mine |->
                [kind |-> findParseFunc(t, id),
                 data |-> ReadAt(file, mine[k].fc.Pos,
                                 Min(SumWants(input.wants, 1), mine[k].fc.Len))]]

(* The range loop of parseAllFramesCoords has no identifier left to visit. *)
RangeDone == pc = "all" /\ DOMAIN t.framesCoords \ ranged = {}

(* C16: when no decoder fails, parseAllFramesCoords ends, whatever the     *)
(* order of the visits, with an empty index and with the store holding,    *)
(* per identifier, the same values in the same order.                      *)
C16_ResolveAllOrderFree ==
    RangeDone =>
        /\ t.framesCoords = EmptyMap
        /\ \A id \in QueryIDs : StoreOf(id) = ExpectedStore(id)
        /\ DOMAIN t.frames \subseteq QueryIDs

(* The loop visited two identifiers that both have decoded values.         *)
C16_Witness ==
    /\ RangeDone
    /\ Cardinality(ranged) >= 2
    /\ \E a \in ranged, b \in ranged :
          /\ a # b /\ StoreOf(a) # <<>> /\ StoreOf(b) # <<>>
          /\ Len(StoreOf(a)[1].data) > 0

(* ceil((tagEnd - 10) / 10): the iterations findAllFrames can make.        *)
MaxIterations(tagEnd) == (tagEnd - tagHeaderSize + (frameHeaderSize - 1)) \div frameHeaderSize

(* C17: findAllFrames ends after at most ceil((tagEnd - 10) / 10)          *)
(* iterations: no recorded size is negative and the cursor has advanced by *)
(* at least 10 for every iteration made, also over frames of size 0.       *)
C17_ScanTerminates ==
    (t.present /\ HeaderPresent) =>
        /\ scan.iters <= MaxIterations(t.originalSize)
        /\ \A id \in DOMAIN t.framesCoords : \A i \in DOMAIN t.framesCoords[id] :
              t.framesCoords[id][i].Len >= 0
        /\ pc = "scan" => pos >= tagHeaderSize + frameHeaderSize * scan.iters

(* A scan over frames of size 0 only used every iteration the bound allows.*)
C17_Witness ==
    /\ JustScanned
    /\ scan.iters >= 2
    /\ scan.iters = MaxIterations(t.originalSize)
    /\ \A fc \in AllCoords : fc.Len = 0

(* C18: findParseFunc returns the text decoder exactly for the identifiers *)
(* that begin with 'T'; otherwise the picture, comment or lyrics decoder   *)
(* exactly for the identifier the tag's table gives that frame; otherwise  *)
(* none.  The tag (index and store) is as before.                          *)
C18_DispatchRule ==
    cur.id # <<>> =>
        LET id == cur.id
            f == cur.parseFunc
            text == id[1] = 84
        IN  /\ (f = "parseTextFrame") <=> text
            /\ (f = "parsePictureFrame") <=> (~text /\ id = t.ids["Attached picture"])
            /\ (f = "parseCommentFrame") <=> (~text /\ id = t.ids["Comments"])
            /\ (f = "parseUnsynchronisedLyricsFrame") <=>
                  (~text /\ id = t.ids["Unsynchronised lyrics/text transcription"])
            /\ (f = "nil") <=>
                  (~text /\ id \notin {t.ids[n] : n \in DOMAIN t.ids})
            /\ t.framesCoords = EmptyMap /\ t.frames = EmptyMap

(* The lyrics identifier was dispatched on a version 4 tag.                *)
C18_Witness ==
    /\ cur.id = USLT
    /\ cur.parseFunc = "parseUnsynchronisedLyricsFrame"
    /\ t.version = 4

(* The index entry of an identifier: whether it is there, and its          *)
(* coordinates in order.                                                   *)
CoordsOf(id) ==
    IF t.present /\ id \in DOMAIN t.framesCoords
    THEN [pending |-> TRUE, fcs |-> t.framesCoords[id]]
    ELSE [pending |-> FALSE, fcs |-> <<>>]

(* The identifiers with an index entry or with decoded values.             *)
KnownIDs == IF t.present THEN DOMAIN t.framesCoords \cup DOMAIN t.frames ELSE {}

(* This step belongs to a call parseFramesCoordsWithID(a).                 *)
ResolveStepOf(a) ==
    \/ pc = "resolve" /\ cur.id = a
    \/ pc = "ready" /\ ResolveBegin(a, "ready")
    \/ pc = "all" /\ ResolveBegin(a, "all")

(* C19: every step of parseFramesCoordsWithID(A) leaves the index entry    *)
(* (same coordinates, same order) and the decoded values of every other    *)
(* identifier B as they were; A's entry stays as it is while the call runs *)
(* and is gone when the call has returned.                                 *)
C19_ResolveTouchesOnlyItsID ==
    [][\A a \in QueryIDs :
          ResolveStepOf(a) =>
             /\ \A b \in (KnownIDs \cup KnownIDs' \cup QueryIDs) \ {a} :
                   CoordsOf(b)' = CoordsOf(b) /\ StoreOf(b)' = StoreOf(b)
             /\ pc' \in {"resolve", "panic"} => CoordsOf(a)' = CoordsOf(a)
             /\ pc' \in {"ready", "all"} => ~CoordsOf(a)'.pending]_vars

(* A's occurrences have been decoded and A is about to leave the index,    *)
(* while B has decoded values in the store and a third identifier is       *)
(* pending in the index.                                                   *)
C19_Witness ==
    /\ pc = "resolve" /\ cur.todo = <<>>
    /\ Len(StoreOf(cur.id)) >= 1
    /\ \E b \in DOMAIN t.frames : b # cur.id /\ Len(StoreOf(b)) >= 1
    /\ \E c \in DOMAIN t.framesCoords : c # cur.id /\ Len(t.framesCoords[c]) >= 1

(* The end of the payload range of the last frame recorded, or the start   *)
(* of the frame region when nothing is recorded.                           *)
ScanFrontier ==
    IF AllCoords = {} THEN tagHeaderSize
    ELSE LET last == CHOOSE fc \in AllCoords : \A o \in AllCoords : o.Pos <= fc.Pos
         IN  last.Pos + last.Len

(* C20: while the scan runs, and until something is resolved, the          *)
(* recorded coordinates are distinct, their payload ranges are pairwise    *)
(* disjoint, the first has Pos = 20 and every other has Pos = Pos + Len +  *)
(* 10 of the one recorded before it, each identifier's sequence is in      *)
(* increasing Pos, every header starts before the tag end, and the cursor  *)
(* of a running scan is at the end of the last recorded payload.           *)
C20_ScanLayout ==
    IndexIntact =>
        /\ Cardinality(AllCoords) = CountCoords(t.framesCoords, DOMAIN t.framesCoords)
        /\ AllCoords # {} =>
              \E fc \in AllCoords : fc.Pos = tagHeaderSize + frameHeaderSize
        /\ \A fc \in AllCoords :
              \/ fc.Pos = tagHeaderSize + frameHeaderSize
              \/ \E pr \in AllCoords : fc.Pos = pr.Pos + pr.Len + frameHeaderSize
        /\ \A a, b \in AllCoords :
              a # b => /\ a.Pos # b.Pos
                       /\ (a.Pos + a.Len <= b.Pos \/ b.Pos + b.Len <= a.Pos)
        /\ \A id \in DOMAIN t.framesCoords :
              \A i, j \in DOMAIN t.framesCoords[id] :
                 i < j => t.framesCoords[id][i].Pos < t.framesCoords[id][j].Pos
        /\ \A fc \in AllCoords : fc.Pos - frameHeaderSize < t.originalSize
        /\ pc = "scan" => pos = ScanFrontier

(* The scan is running and has recorded a frame with payload and, after    *)
(* it, another frame.                                                      *)
C20_Witness ==
    /\ pc = "scan" /\ IndexIntact
    /\ \E a, b \in AllCoords :
          /\ a.Pos = tagHeaderSize + frameHeaderSize /\ a.Len > 0
          /\ b.Pos = a.Pos + a.Len + frameHeaderSize

====
